---- MODULE Spec2Model ----
(***************************************************************************)
(* Model of align_keymap.py (ZMK keymap aligner).                          *)
(*                                                                         *)
(* Text is modelled at character level: a Python str is a sequence of      *)
(* one-character strings, so split(), rstrip(), join(), startswith(),      *)
(* lower(), len() and the two comment regexes are computed the way the     *)
(* code computes them.  Python indices are 0-based, the model's are        *)
(* 1-based: the scan index i of the model is the code's i + 1.             *)
(***************************************************************************)
EXTENDS Integers, Sequences, FiniteSets, TLC

VARIABLES
    bindings_content,   \* argument of extract_bindings_from_content
    tokens,             \* token list built at line 105
    i,                  \* scan index of _parse_tokens_into_bindings
    bindings,           \* bindings list of _parse_tokens_into_bindings
    pc,                 \* position in the tokenizer: "extract", "parse", "done"
    source_blocks,      \* the layer blocks the keymap file was written from
    keymap_content,     \* text of the keymap file
    layout,             \* the loaded layout: [layout |-> matrix of cell markers]
    scan_pos,           \* position reached by re.finditer in extract_all_layers
    layers,             \* ordered dict name -> bindings of extract_all_layers
    structured_layers,  \* ordered dict name -> grid rows
    column_widths,      \* list returned by calculate_column_widths
    keymap_lines,       \* rendered layers, in rendering order
    layer_pc,           \* position in the layer pipeline
    layout_file,        \* the layout file on disk
    keymap_file,        \* the keymap file on disk
    output_file,        \* the output_file argument; "" stands for None
    debug,              \* the debug argument
    lines,              \* keymap_content.split('\n')
    keymap_start_idx,   \* index of the opening line, 0 while None
    keymap_end_idx,     \* index of the closing line, 0 while None
    output_content,     \* text assembled at line 514
    opened,             \* the files opened for writing, in order
    written,            \* the calls of f.write: target file and text
    error               \* the error message printed before `return False`

tokenizer_vars == <<bindings_content, tokens, i, bindings, pc>>

layer_vars == <<source_blocks, keymap_content, layout, scan_pos, layers,
                structured_layers, column_widths, keymap_lines, layer_pc>>

\* the arguments of align_keymap_with_layout and the files they name
input_vars == <<layout_file, keymap_file, output_file, debug>>

\* the section splicer and the file write
splice_vars == <<lines, keymap_start_idx, keymap_end_idx, output_content>>

write_vars == <<opened, written>>

\* every variable of align_keymap_with_layout
pipeline_vars == <<layer_vars, input_vars, splice_vars, write_vars, error>>

vars == <<tokenizer_vars, pipeline_vars>>

-----------------------------------------------------------------------------
(* Bounds of the explored inputs                                           *)

MaxTokens == 4
MaxLexemes == 4
MaxBlocks == 2
MaxFairTokens == 3
MaxPlainBlocks == 3

-----------------------------------------------------------------------------
(* Python str primitives                                                   *)

Whitespace == {" ", "\n", "\t", "\r"}

UpperChars == <<"A","B","C","D","E","F","G","H","I","J","K","L","M",
                "N","O","P","Q","R","S","T","U","V","W","X","Y","Z">>
LowerChars == <<"a","b","c","d","e","f","g","h","i","j","k","l","m",
                "n","o","p","q","r","s","t","u","v","w","x","y","z">>

LowerChar(c) ==
    IF \E k \in 1..26 : UpperChars[k] = c
    THEN LowerChars[CHOOSE k \in 1..26 : UpperChars[k] = c]
    ELSE c

\* str.lower()
Lower(s) == [k \in 1..Len(s) |-> LowerChar(s[k])]

\* str.startswith(prefix)
StartsWith(s, prefix) ==
    /\ Len(s) >= Len(prefix)
    /\ SubSeq(s, 1, Len(prefix)) = prefix

\* str.rstrip(chars)
RECURSIVE RStrip(_, _)
RStrip(s, chars) ==
    IF s # <<>> /\ s[Len(s)] \in chars
    THEN RStrip(SubSeq(s, 1, Len(s) - 1), chars)
    ELSE s

SetMax(S) == CHOOSE m \in S : \A x \in S : x <= m
SetMin(S) == CHOOSE m \in S : \A x \in S : m <= x

\* the k-th smallest element of a set of numbers
NthSmallest(S, k) == CHOOSE x \in S : Cardinality({y \in S : y < x}) = k - 1

\* str.split(): the maximal runs of non-whitespace characters, in order
Split(s) ==
    LET starts == {p \in 1..Len(s) :
                      s[p] \notin Whitespace /\ (p = 1 \/ s[p - 1] \in Whitespace)}
        last(p) == SetMin({e \in p..Len(s) :
                      e = Len(s) \/ s[e + 1] \in Whitespace})
    IN  [k \in 1..Cardinality(starts) |->
            LET p == NthSmallest(starts, k) IN SubSeq(s, p, last(p))]

\* sep.join(parts)
RECURSIVE Join(_, _)
Join(parts, sep) ==
    IF parts = <<>> THEN <<>>
    ELSE IF Len(parts) = 1 THEN parts[1]
    ELSE parts[1] \o sep \o Join(Tail(parts), sep)


\* str.find(pat, p): the first index q >= p at which pat occurs in s, else 0
Find(s, pat, p) ==
    LET occurrences == { q \in p..(Len(s) - Len(pat) + 1) :
                           SubSeq(s, q, q + Len(pat) - 1) = pat }
    IN  IF occurrences = {} THEN 0 ELSE SetMin(occurrences)

\* `sub in s`
Contains(s, sub) == Find(s, sub, 1) # 0

-----------------------------------------------------------------------------
(* Program constants                                                       *)

SIGIL == <<"&">>

MULTI_PARAM_BEHAVIORS ==
    { <<"&","h","m","r">>, <<"&","h","m","l">>,
      <<"&","h","m","r","t">>, <<"&","h","m","l","t">>,
      <<"&","l","t","l">>, <<"&","l","t","r">>, <<"&","t","d">> }

\* line 154 with every multi-parameter behavior in the list
NESTED_SECOND_PARAM_ANY == MULTI_PARAM_BEHAVIORS

\* behaviors that accept a behavior reference as their second parameter
NESTED_SECOND_PARAM_BEHAVIORS ==
    { <<"&","h","m","r">>, <<"&","h","m","l">>,
      <<"&","h","m","r","t">>, <<"&","h","m","l","t">> }

behavior_param_rules ==
    [b \in MULTI_PARAM_BEHAVIORS |->
        IF b \in { <<"&","l","t","l">>, <<"&","l","t","r">> }
        THEN {2} ELSE {1, 2}]

-----------------------------------------------------------------------------
(* Tokenizer                                                               *)

\* index of the end of the line holding position p: the first "\n" at or
\* after p, or Len(s) + 1
EndOfLine(s, p) ==
    SetMin({e \in p..(Len(s) + 1) : e > Len(s) \/ s[e] = "\n"})

\* re.sub(r"//.*$", "", s, flags=re.MULTILINE), from position p: the text up
\* to the next "//" is kept, the text from it to the end of its line is not
RECURSIVE StripLineCommentsFrom(_, _)
StripLineCommentsFrom(s, p) ==
    LET starts == {q \in p..(Len(s) - 1) : s[q] = "/" /\ s[q + 1] = "/"}
    IN  IF starts = {} THEN SubSeq(s, p, Len(s))
        ELSE SubSeq(s, p, SetMin(starts) - 1)
                 \o StripLineCommentsFrom(s, EndOfLine(s, SetMin(starts)))

StripLineComments(s) == StripLineCommentsFrom(s, 1)

\* re.sub(r"/\*.*?\*/", "", s, flags=re.DOTALL), from position p: the text
\* up to the next "/*" that a "*/" follows is kept, the text from it to the
\* first such "*/" is not
RECURSIVE StripBlockCommentsFrom(_, _)
StripBlockCommentsFrom(s, p) ==
    LET starts == {q \in p..(Len(s) - 1) :
                      /\ s[q] = "/" /\ s[q + 1] = "*"
                      /\ Find(s, <<"*", "/">>, q + 2) # 0}
    IN  IF starts = {} THEN SubSeq(s, p, Len(s))
        ELSE SubSeq(s, p, SetMin(starts) - 1)
                 \o StripBlockCommentsFrom(s,
                        Find(s, <<"*", "/">>, SetMin(starts) + 2) + 2)

StripBlockComments(s) == StripBlockCommentsFrom(s, 1)

\* [token.rstrip(">;") for token in content.split() if token.rstrip(">;")]
StripTokens(raw) ==
    LET stripped == [k \in 1..Len(raw) |-> RStrip(raw[k], {">", ";"})]
    IN  SelectSeq(stripped, LAMBDA t : t # <<>>)

\* lines 103-105 of extract_bindings_from_content
Tokenize(content) ==
    StripTokens(Split(StripBlockComments(StripLineComments(content))))

\* min() in place of max() at line 148
MaxParamsMin(behavior) ==
    IF behavior \in DOMAIN behavior_param_rules
    THEN SetMin(behavior_param_rules[behavior])
    ELSE 2

\* line 148: max(behavior_param_rules.get(behavior, [2]))
MaxParams(behavior) ==
    IF behavior \in DOMAIN behavior_param_rules
    THEN SetMax(behavior_param_rules[behavior])
    ELSE 2

\* the loop of _handle_multi_param_behavior with the `param_count += 1` of
\* the plain-parameter branch (line 170) left out
RECURSIVE MultiParamLoopNoCount(_, _, _, _)
MultiParamLoopNoCount(toks, idx, binding_parts, param_count) ==
    LET behavior == Lower(binding_parts[1])
        max_params == MaxParams(behavior)
    IN
    IF ~(idx <= Len(toks) /\ param_count < max_params)
    THEN [i |-> idx, binding_parts |-> binding_parts]
    ELSE IF StartsWith(toks[idx], SIGIL)
         THEN IF \/ param_count = 0
                 \/ (param_count = 1 /\ behavior \in NESTED_SECOND_PARAM_BEHAVIORS)
              THEN IF /\ param_count + 1 < max_params
                      /\ idx + 1 <= Len(toks)
                      /\ ~StartsWith(toks[idx + 1], SIGIL)
                   THEN MultiParamLoopNoCount(toks, idx + 2,
                            binding_parts \o <<toks[idx], toks[idx + 1]>>,
                            param_count + 2)
                   ELSE MultiParamLoopNoCount(toks, idx + 1,
                            Append(binding_parts, toks[idx]),
                            param_count + 1)
              ELSE [i |-> idx, binding_parts |-> binding_parts]
         ELSE MultiParamLoopNoCount(toks, idx + 1,
                  Append(binding_parts, toks[idx]), param_count)

\* the while loop of _handle_multi_param_behavior (lines 150-172)
RECURSIVE MultiParamLoop(_, _, _, _)
MultiParamLoop(toks, idx, binding_parts, param_count) ==
    LET behavior == Lower(binding_parts[1])
        max_params == MaxParams(behavior)
    IN
    IF ~(idx <= Len(toks) /\ param_count < max_params)
    THEN [i |-> idx, binding_parts |-> binding_parts]
    ELSE IF StartsWith(toks[idx], SIGIL)
         THEN IF \/ param_count = 0
                 \/ (param_count = 1 /\ behavior \in NESTED_SECOND_PARAM_BEHAVIORS)
              THEN IF /\ param_count + 1 < max_params
                      /\ idx + 1 <= Len(toks)
                      /\ ~StartsWith(toks[idx + 1], SIGIL)
                   THEN MultiParamLoop(toks, idx + 2,
                            binding_parts \o <<toks[idx], toks[idx + 1]>>,
                            param_count + 2)
                   ELSE MultiParamLoop(toks, idx + 1,
                            Append(binding_parts, toks[idx]),
                            param_count + 1)
              ELSE [i |-> idx, binding_parts |-> binding_parts]
         ELSE MultiParamLoop(toks, idx + 1,
                  Append(binding_parts, toks[idx]), param_count + 1)

handle_multi_param_behavior(toks, idx, binding_parts) ==
    MultiParamLoop(toks, idx, binding_parts, 0)

\* _handle_standard_behavior consuming one parameter at most
handle_standard_behavior_one(toks, idx, binding_parts) ==
    IF idx <= Len(toks) /\ ~StartsWith(toks[idx], SIGIL)
    THEN [i |-> idx + 1, binding_parts |-> Append(binding_parts, toks[idx])]
    ELSE [i |-> idx, binding_parts |-> binding_parts]

RECURSIVE handle_standard_behavior(_, _, _)
handle_standard_behavior(toks, idx, binding_parts) ==
    IF idx <= Len(toks) /\ ~StartsWith(toks[idx], SIGIL)
    THEN handle_standard_behavior(toks, idx + 1, Append(binding_parts, toks[idx]))
    ELSE [i |-> idx, binding_parts |-> binding_parts]

\* one iteration of the while loop of _parse_tokens_into_bindings whose
\* token starts with the sigil (lines 114-124), resuming one token late
ParseBehaviorSkip(toks, idx, bs) ==
    LET binding_parts == <<toks[idx]>>
        behavior == Lower(binding_parts[1])
        r == IF behavior \in MULTI_PARAM_BEHAVIORS
             THEN handle_multi_param_behavior(toks, idx + 1, binding_parts)
             ELSE handle_standard_behavior(toks, idx + 1, binding_parts)
    IN  [i |-> r.i + 1, bindings |-> Append(bs, Join(r.binding_parts, <<" ">>))]

ParseBehavior(toks, idx, bs) ==
    LET binding_parts == <<toks[idx]>>
        behavior == Lower(binding_parts[1])
        r == IF behavior \in MULTI_PARAM_BEHAVIORS
             THEN handle_multi_param_behavior(toks, idx + 1, binding_parts)
             ELSE handle_standard_behavior(toks, idx + 1, binding_parts)
    IN  [i |-> r.i, bindings |-> Append(bs, Join(r.binding_parts, <<" ">>))]

\* _parse_tokens_into_bindings from scan index idx with bindings bs
RECURSIVE ParseFrom(_, _, _)
ParseFrom(toks, idx, bs) ==
    IF idx > Len(toks) THEN bs
    ELSE IF StartsWith(toks[idx], SIGIL)
         THEN LET r == ParseBehavior(toks, idx, bs)
              IN  ParseFrom(toks, r.i, r.bindings)
         ELSE ParseFrom(toks, idx + 1, bs)

parse_tokens_into_bindings(toks) == ParseFrom(toks, 1, <<>>)

extract_bindings_from_content(content) ==
    IF content = <<>> THEN <<>>
    ELSE parse_tokens_into_bindings(Tokenize(content))

-----------------------------------------------------------------------------
(* Text constants                                                          *)

STR_bindings == <<"b","i","n","d","i","n","g","s">>
STR_display_name_open == <<" "," "," "," "," "," "," "," "," "," "," "," ","d","i","s","p","l","a","y","-","n","a","m","e"," ","="," ","\"">>
STR_display_name_close == <<"\"",";">>
STR_bindings_open == <<" "," "," "," "," "," "," "," "," "," "," "," ","b","i","n","d","i","n","g","s"," ","="," ","<">>
STR_bindings_close == <<" "," "," "," "," "," "," "," "," "," "," "," ",">",";">>
STR_layer_indent == <<" "," "," "," "," "," "," "," ">>
STR_layer_open == <<" ","{">>
STR_layer_close == <<" "," "," "," "," "," "," "," ","}",";">>
STR_row_indent == <<" "," "," ">>
STR_keymap_open == <<" "," "," "," ","k","e","y","m","a","p"," ","{">>
\* the marker searched at line 474
STR_keymap_marker == <<"k","e","y","m","a","p"," ","{">>
STR_keymap_close == <<" "," "," "," ","}",";">>
STR_root_open == <<"/"," ","{">>
STR_root_close == <<"}",";">>
STR_BASE == <<"B","A","S","E">>
STR_NAV == <<"N","A","V">>
STR_Base_Layer == <<"B","a","s","e"," ","L","a","y","e","r">>

STR_compatible == <<" "," "," "," "," "," "," "," ","c","o","m","p","a","t","i","b","l","e"," ","="," ","\"","z","m","k",",","k","e","y","m","a","p","\"",";">>
STR_display_name == <<"d","i","s","p","l","a","y","-","n","a","m","e">>
STR_display_name_eq == <<"d","i","s","p","l","a","y","-","n","a","m","e"," ","="," ","\"">>
STR_kp_A == <<"&","k","p"," ","A">>
STR_three_bindings == <<"&","k","p"," ","B"," ","&","l","t"," ","1"," ","C"," ","&","k","p"," ","D">>

NL == <<"\n">>

\* Python None
None == <<"None">>

DEFAULT_COLUMN_PADDING == 2

-----------------------------------------------------------------------------
(* Ordered dict: a sequence of [key, value] records in insertion order     *)

DictKeys(d) == [k \in 1..Len(d) |-> d[k].key]

DictHas(d, key) == \E k \in 1..Len(d) : d[k].key = key

DictGet(d, key) == d[CHOOSE k \in 1..Len(d) : d[k].key = key].value

\* d[key] = value keeping the first value stored under an existing key
DictSetKeepFirst(d, key, value) ==
    IF DictHas(d, key)
    THEN d
    ELSE Append(d, [key |-> key, value |-> value])

\* d[key] = value: an existing key keeps its position and takes the new
\* value, a new key is appended
DictSet(d, key, value) ==
    IF DictHas(d, key)
    THEN [k \in 1..Len(d) |->
            IF d[k].key = key THEN [key |-> key, value |-> value] ELSE d[k]]
    ELSE Append(d, [key |-> key, value |-> value])

-----------------------------------------------------------------------------
(* extract_all_layers                                                      *)

Digits == {"0","1","2","3","4","5","6","7","8","9"}

\* \w
WordChars ==
    {UpperChars[k] : k \in 1..26} \cup {LowerChars[k] : k \in 1..26}
        \cup Digits \cup {"_"}

\* \s*  from position p: the first position at or after p not holding
\* whitespace
RECURSIVE SkipWhitespace(_, _)
SkipWhitespace(s, p) ==
    IF p <= Len(s) /\ s[p] \in Whitespace THEN SkipWhitespace(s, p + 1) ELSE p

\* \w+  from position p: the first position after p not holding a word
\* character
RECURSIVE SkipWord(_, _)
SkipWord(s, p) ==
    IF p <= Len(s) /\ s[p] \in WordChars THEN SkipWord(s, p + 1) ELSE p

HasAt(s, p, lit) ==
    /\ p + Len(lit) - 1 <= Len(s)
    /\ SubSeq(s, p, p + Len(lit) - 1) = lit

\* layer_pattern = r"(\w+)\s*\{\s*bindings\s*=\s*<([^>]+)>\s*;" matched at
\* position q.  Every quantifier of the pattern is followed by an element
\* that its own characters cannot match, so the greedy match is the only one.
LayerMatchAt(s, q) ==
    LET e  == SkipWord(s, q)
        a  == SkipWhitespace(s, e)
        b  == SkipWhitespace(s, a + 1)
        c  == SkipWhitespace(s, b + Len(STR_bindings))
        d  == SkipWhitespace(s, c + 1)
        g  == Find(s, <<">">>, d + 1)
        h  == SkipWhitespace(s, g + 1)
        ok == /\ q <= Len(s) /\ s[q] \in WordChars
              /\ HasAt(s, a, <<"{">>)
              /\ HasAt(s, b, STR_bindings)
              /\ HasAt(s, c, <<"=">>)
              /\ HasAt(s, d, <<"<">>)
              /\ g > d + 1
              /\ HasAt(s, h, <<";">>)
    IN  IF ok
        THEN [found |-> TRUE, group1 |-> SubSeq(s, q, e - 1),
              group2 |-> SubSeq(s, d + 1, g - 1), end |-> h + 1]
        ELSE [found |-> FALSE]

\* the next match of re.finditer at or after position p: the match at the
\* leftmost position where the pattern matches
NextLayerMatch(s, p) ==
    LET starts == { q \in p..Len(s) : LayerMatchAt(s, q).found }
    IN  IF starts = {} THEN [found |-> FALSE]
        ELSE LayerMatchAt(s, SetMin(starts))

\* the whole of extract_all_layers, from scan position p with dict d
RECURSIVE ExtractLayersFrom(_, _, _)
ExtractLayersFrom(s, p, d) ==
    LET m == NextLayerMatch(s, p)
    IN  IF ~m.found THEN d
        ELSE ExtractLayersFrom(s, m.end,
                 DictSet(d, m.group1, extract_bindings_from_content(m.group2)))

extract_all_layers(content) == ExtractLayersFrom(content, 1, <<>>)

\* the display label the returned mapping holds for a layer: its values are
\* the plain binding lists of line 194, which carry no label
LayerDisplayName(d, key) == None

-----------------------------------------------------------------------------
(* build_layer_structure                                                   *)

\* the inner loop with line 235 left out: binding_index never advances
RECURSIVE BuildRowNoAdvance(_, _, _, _, _)
BuildRowNoAdvance(row, c, bs, binding_index, row_bindings) ==
    IF c > Len(row)
    THEN [row_bindings |-> row_bindings, binding_index |-> binding_index]
    ELSE IF row[c] = "X"
         THEN IF binding_index <= Len(bs)
              THEN BuildRowNoAdvance(row, c + 1, bs, binding_index,
                            Append(row_bindings, bs[binding_index]))
              ELSE BuildRowNoAdvance(row, c + 1, bs, binding_index,
                            Append(row_bindings, None))
         ELSE BuildRowNoAdvance(row, c + 1, bs, binding_index,
                                Append(row_bindings, None))

\* the inner loop over the cells of one row (lines 231-239)
RECURSIVE BuildRow(_, _, _, _, _)
BuildRow(row, c, bs, binding_index, row_bindings) ==
    IF c > Len(row)
    THEN [row_bindings |-> row_bindings, binding_index |-> binding_index]
    ELSE IF row[c] = "X"
         THEN IF binding_index <= Len(bs)
              THEN BuildRow(row, c + 1, bs, binding_index + 1,
                            Append(row_bindings, bs[binding_index]))
              ELSE BuildRow(row, c + 1, bs, binding_index,
                            Append(row_bindings, None))
         ELSE BuildRow(row, c + 1, bs, binding_index, Append(row_bindings, None))

\* the loop over the rows with binding_index reset on every row
RECURSIVE BuildRowsRestarting(_, _, _, _, _)
BuildRowsRestarting(layout_matrix, r, bs, binding_index, layer_rows) ==
    IF r > Len(layout_matrix) THEN layer_rows
    ELSE LET res == BuildRow(layout_matrix[r], 1, bs, binding_index, <<>>)
         IN  BuildRowsRestarting(layout_matrix, r + 1, bs, binding_index,
                                 Append(layer_rows, res.row_bindings))

\* the loop over the rows of the matrix (lines 229-240)
RECURSIVE BuildRows(_, _, _, _, _)
BuildRows(layout_matrix, r, bs, binding_index, layer_rows) ==
    IF r > Len(layout_matrix) THEN layer_rows
    ELSE LET res == BuildRow(layout_matrix[r], 1, bs, binding_index, <<>>)
         IN  BuildRows(layout_matrix, r + 1, bs, res.binding_index,
                       Append(layer_rows, res.row_bindings))

build_layer_structure(ls, lay) ==
    [k \in 1..Len(ls) |->
        [key |-> ls[k].key,
         value |-> BuildRows(lay.layout, 1, ls[k].value, 1, <<>>)]]

-----------------------------------------------------------------------------
(* calculate_column_widths                                                 *)

NumColumns(lay) == IF lay.layout # <<>> THEN Len(lay.layout[1]) ELSE 0

\* the placed bindings of column c over all rows of all layers
ColumnBindings(sl, c) ==
    UNION { { sl[k].value[r][c] :
                r \in { r \in 1..Len(sl[k].value) :
                          /\ c <= Len(sl[k].value[r])
                          /\ sl[k].value[r][c] # None } } :
            k \in 1..Len(sl) }

\* line 257 raises IndexError when a binding sits in a column the first
\* matrix row does not have
WidthsIndexError(sl, lay) ==
    \E k \in 1..Len(sl) : \E r \in 1..Len(sl[k].value) :
        \E c \in 1..Len(sl[k].value[r]) :
            sl[k].value[r][c] # None /\ c > NumColumns(lay)

\* line 259 returning the widths without the padding
calculate_column_widths_unpadded(sl, lay, padding) ==
    [c \in 1..NumColumns(lay) |->
        IF ColumnBindings(sl, c) = {} THEN 0
        ELSE SetMax({Len(b) : b \in ColumnBindings(sl, c)})]

calculate_column_widths(sl, lay, padding) ==
    [c \in 1..NumColumns(lay) |->
        (IF ColumnBindings(sl, c) = {} THEN 0
         ELSE SetMax({Len(b) : b \in ColumnBindings(sl, c)})) + padding]

-----------------------------------------------------------------------------
(* format_layer                                                            *)

Spaces(n) == [k \in 1..n |-> " "]

\* str.ljust(width) that pads nothing
LJustUnpadded(s, width) == s

\* str.ljust(width)
LJust(s, width) == IF width > Len(s) THEN s \o Spaces(width - Len(s)) ELSE s

\* lines 270 and 272 raise IndexError for a cell beyond the width list
FormatIndexError(layer_rows, widths) ==
    \E r \in 1..Len(layer_rows) : Len(layer_rows[r]) > Len(widths)

\* the loop over the cells of one row (lines 266-272)
RECURSIVE RowContent(_, _, _, _)
RowContent(row, c, widths, row_content) ==
    IF c > Len(row) THEN row_content
    ELSE RowContent(row, c + 1, widths,
             row_content \o (IF row[c] # None
                             THEN LJust(row[c], widths[c])
                             ELSE Spaces(widths[c])))

\* format_layer with line 274 appending row_content as it is
format_layer_untrimmed(layer_name, layer_rows, widths) ==
    LET head == << STR_layer_indent \o layer_name \o STR_layer_open,
                   STR_bindings_open >>
        body == [r \in 1..Len(layer_rows) |->
                    RowContent(layer_rows[r], 1, widths, STR_row_indent)]
        tail == << STR_bindings_close, STR_layer_close >>
    IN  Join(head \o body \o tail, NL)

format_layer(layer_name, layer_rows, widths) ==
    LET head == << STR_layer_indent \o layer_name \o STR_layer_open,
                   STR_bindings_open >>
        body == [r \in 1..Len(layer_rows) |->
                    RStrip(RowContent(layer_rows[r], 1, widths, STR_row_indent),
                           Whitespace)]
        tail == << STR_bindings_close, STR_layer_close >>
    IN  Join(head \o body \o tail, NL)

-----------------------------------------------------------------------------
(* load_layout                                                             *)

\* a layout file is [exists, valid_json, json_type, data]: json_type is
\* "object" or "null", the type of the JSON document, data is the JSON object of
\* the file, a record of its fields.  A cell marker is named by its JSON
\* literal: "X" and "-" are the strings, "1" the number, "true" the boolean.
\* lines 200-215: the file opens, parses and holds a "layout" field
LayoutLoads(f) ==
    /\ f.exists
    /\ f.valid_json
    /\ f.json_type = "object"
    /\ "layout" \in DOMAIN f.data

\* line 204: `"layout" not in layout` raises TypeError when json.load
\* returned None
LoadLayoutTypeError(f) ==
    /\ f.exists
    /\ f.valid_json
    /\ f.json_type = "null"

\* the message of lines 205, 211 and 214
LoadLayoutError(f) ==
    IF ~f.exists THEN "Layout file not found"
    ELSE IF ~f.valid_json THEN "Invalid JSON in layout file"
    ELSE "Layout file must contain a 'layout' field"

\* line 208, for a file that loads
load_layout(f) == f.data

\* a layout with no rows
EmptyLayout == [layout |-> <<>>]

\* the layout file that holds the JSON object lay
LayoutFileOf(lay) ==
    [exists |-> TRUE, valid_json |-> TRUE, json_type |-> "object", data |-> lay]

\* the paths given as keymap_file and output_file
KEYMAP_PATH == "in.keymap"
OUTPUT_PATH == "aligned.keymap"

-----------------------------------------------------------------------------
(* The section splicer (lines 468-498 and 511-514)                         *)

\* str.count(ch) for a one-character ch
Count(s, ch) == Cardinality({p \in 1..Len(s) : s[p] = ch})

\* str.split('\n')
SplitLines(s) ==
    LET nl == {p \in 1..Len(s) : s[p] = "\n"}
        n  == Cardinality(nl) + 1
        first(k) == IF k = 1 THEN 1 ELSE NthSmallest(nl, k - 1) + 1
        last(k)  == IF k = n THEN Len(s) ELSE NthSmallest(nl, k) - 1
    IN  [k \in 1..n |-> SubSeq(s, first(k), last(k))]

\* lines 473-476: the first line holding 'keymap {', 0 when there is none
FindKeymapStart(ls) ==
    LET hits == {k \in 1..Len(ls) : Contains(ls[k], STR_keymap_marker)}
    IN  IF hits = {} THEN 0 ELSE SetMin(hits)

\* brace_count after the line k of the loop of lines 484-490
RECURSIVE BraceCount(_, _, _)
BraceCount(ls, start, k) ==
    IF k < start THEN 0
    ELSE BraceCount(ls, start, k - 1) + Count(ls[k], "{") - Count(ls[k], "}")

\* lines 483-490 with the end of the file taken for the closing line when
\* brace_count is zero on no line
FindKeymapEndOrEof(ls, start) ==
    LET hits == {k \in (start + 1)..Len(ls) : BraceCount(ls, start, k) = 0}
    IN  IF hits = {} THEN Len(ls) ELSE SetMin(hits)

\* lines 483-490: the first line after the opening line at which brace_count
\* is zero, 0 when there is none
FindKeymapEnd(ls, start) ==
    LET hits == {k \in (start + 1)..Len(ls) : BraceCount(ls, start, k) = 0}
    IN  IF hits = {} THEN 0 ELSE SetMin(hits)

\* line 497 slicing lines[:keymap_start_idx + 1]: the opening line is kept
pre_keymap_content_with_opening(ls, start) == Join(SubSeq(ls, 1, start), NL)

\* line 497
pre_keymap_content(ls, start) == Join(SubSeq(ls, 1, start - 1), NL)

\* line 498
post_keymap_content(ls, end) == Join(SubSeq(ls, end + 1, Len(ls)), NL)

\* lines 511-514
AssembleOutput(ls, start, end, klines) ==
    pre_keymap_content(ls, start) \o NL \o Join(klines, NL) \o NL
        \o post_keymap_content(ls, end)

\* lines 501-510: the regenerated keymap section, one entry per line 501,
\* 504 and 510
RenderKeymapLines(sl, widths) ==
    <<STR_keymap_open, STR_compatible>>
        \o [k \in 1..Len(sl) |-> format_layer(sl[k].key, sl[k].value, widths)]
        \o <<STR_keymap_close>>

\* align_keymap_with_layout without the debug flag on a keymap file that
\* holds content and a loaded layout lay: the outcome, and the text passed
\* to f.write at line 521 when the run gets there
aligned_output(content, lay) ==
    LET ls == extract_all_layers(content)
        sl == build_layer_structure(ls, lay)
        w  == calculate_column_widths(sl, lay, DEFAULT_COLUMN_PADDING)
        ln == SplitLines(content)
        st == FindKeymapStart(ln)
        en == FindKeymapEnd(ln, st)
    IN  IF ls = <<>> THEN [result |-> "failed", text |-> <<>>]
        ELSE IF WidthsIndexError(sl, lay)
             THEN [result |-> "IndexError", text |-> <<>>]
        ELSE IF st = 0 \/ en = 0 THEN [result |-> "failed", text |-> <<>>]
        ELSE IF \E k \in 1..Len(sl) : FormatIndexError(sl[k].value, w)
             THEN [result |-> "IndexError", text |-> <<>>]
        ELSE [result |-> "done",
              text |-> AssembleOutput(ln, st, en, RenderKeymapLines(sl, w))]

\* the debug branch (lines 461-465) raises IndexError at line 342 for an
\* empty matrix and at lines 375, 383, 387 or 270/272 for a row longer than
\* the first
DebugIndexError(lay) ==
    \/ lay.layout = <<>>
    \/ \E r \in 1..Len(lay.layout) : Len(lay.layout[r]) > Len(lay.layout[1])

-----------------------------------------------------------------------------
(* Inputs                                                                  *)

T_kp   == <<"&","k","p">>
T_lt   == <<"&","l","t">>
T_hml  == <<"&","h","m","l">>
T_td   == <<"&","t","d">>
T_ltl  == <<"&","l","t","l">>
T_magic == <<"&","m","a","g","i","c">>
T_caps_word == <<"&","c","a","p","s","_","w","o","r","d">>
T_some_behavior == <<"&","s","o","m","e","_","b","e","h","a","v","i","o","r">>
T_A == <<"A">>
T_1 == <<"1">>
T_0 == <<"0">>
T_ESC == <<"E","S","C">>
T_LCTRL == <<"L","C","T","R","L">>
T_SPACE == <<"S","P","A","C","E">>

TokenAlphabet == {T_kp, T_lt, T_hml, T_td, T_A, T_1}

LexemeAlphabet == {T_kp, T_A, <<"/","/">>, <<"/","*">>, <<"*","/">>, <<"\n">>}

SeqsUpTo(S, n) == UNION {[1..k -> S] : k \in 0..n}

\* the token streams of the tests and of the specification's examples
ExampleStreams ==
    { <<T_lt, T_1, T_caps_word>>,
      <<T_magic, T_1, T_some_behavior>>,
      <<T_td, T_0, T_kp, T_ESC>>,
      <<T_hml, T_LCTRL, T_kp, T_A>>,
      <<T_hml, T_LCTRL, T_A, T_lt, T_1, T_SPACE>>,
      <<<<"&","H","M","L">>, T_LCTRL, T_A, T_kp, T_A>>,
      <<T_ltl, T_1, T_A, T_kp, T_A>>,
      <<T_kp, T_A, <<"/","/">>, <<"c">>, <<"\n">>, T_kp, <<"B">>,
        <<"/","*">>, <<"c">>, <<"*","/">>, T_kp, <<"C", ">", ";">> >> }

\* every multi-parameter behavior with two plain parameters and a following
\* binding, as in '&hml LCTRL A' and '&ltl LAYER2 TAB' of the tests
MultiParamExamples ==
    { <<m, T_LCTRL, T_A, T_kp, T_A>> : m \in MULTI_PARAM_BEHAVIORS }

InputStreams ==
    SeqsUpTo(TokenAlphabet, MaxTokens) \cup SeqsUpTo(LexemeAlphabet, MaxLexemes)
        \cup ExampleStreams \cup MultiParamExamples

-----------------------------------------------------------------------------
(* extract_bindings_from_content, one action per step                      *)

\* the layer pipeline at rest
LayerIdle ==
    /\ source_blocks = <<>>
    /\ keymap_content = <<>>
    /\ layout = EmptyLayout
    /\ scan_pos = 1
    /\ layers = <<>>
    /\ structured_layers = <<>>
    /\ column_widths = <<>>
    /\ keymap_lines = <<>>
    /\ layer_pc = "idle"
    /\ layout_file = LayoutFileOf(EmptyLayout)
    /\ keymap_file = [path |-> KEYMAP_PATH, exists |-> FALSE, text |-> <<>>]
    /\ output_file = ""
    /\ debug = FALSE
    /\ lines = <<>>
    /\ keymap_start_idx = 0
    /\ keymap_end_idx = 0
    /\ output_content = <<>>
    /\ opened = <<>>
    /\ written = <<>>
    /\ error = ""

Init ==
    /\ bindings_content \in {Join(l, <<" ">>) : l \in InputStreams}
    /\ tokens = <<>>
    /\ i = 1
    /\ bindings = <<>>
    /\ pc = "extract"
    /\ LayerIdle

\* lines 100-101: `if not bindings_content: return []`
ExtractEmpty ==
    /\ pc = "extract"
    /\ bindings_content = <<>>
    /\ pc' = "done"
    /\ UNCHANGED <<bindings_content, tokens, i, bindings>>
    /\ UNCHANGED pipeline_vars

\* lines 103-106 and 110-111: strip comments, split, enter the parser
ExtractTokens ==
    /\ pc = "extract"
    /\ bindings_content # <<>>
    /\ tokens' = Tokenize(bindings_content)
    /\ i' = 1
    /\ bindings' = <<>>
    /\ pc' = "parse"
    /\ UNCHANGED bindings_content
    /\ UNCHANGED pipeline_vars

\* the iteration of lines 114-124 with the scan index left where it was
ParseBehaviorStepStuck ==
    /\ pc = "parse"
    /\ i <= Len(tokens)
    /\ StartsWith(tokens[i], SIGIL)
    /\ i' = i
    /\ bindings' = ParseBehavior(tokens, i, bindings).bindings
    /\ UNCHANGED <<bindings_content, tokens, pc>>
    /\ UNCHANGED pipeline_vars

\* lines 113-124: a sigil-prefixed token starts a binding
ParseBehaviorStep ==
    /\ pc = "parse"
    /\ i <= Len(tokens)
    /\ StartsWith(tokens[i], SIGIL)
    /\ LET r == ParseBehavior(tokens, i, bindings)
       IN  /\ i' = r.i
           /\ bindings' = r.bindings
    /\ UNCHANGED <<bindings_content, tokens, pc>>
    /\ UNCHANGED pipeline_vars

\* lines 125-126: any other token is skipped
SkipToken ==
    /\ pc = "parse"
    /\ i <= Len(tokens)
    /\ ~StartsWith(tokens[i], SIGIL)
    /\ i' = i + 1
    /\ UNCHANGED <<bindings_content, tokens, bindings, pc>>
    /\ UNCHANGED pipeline_vars

\* line 128: return bindings
ParseReturn ==
    /\ pc = "parse"
    /\ i > Len(tokens)
    /\ pc' = "done"
    /\ UNCHANGED <<bindings_content, tokens, i, bindings>>
    /\ UNCHANGED pipeline_vars

Next ==
    \/ ExtractEmpty
    \/ ExtractTokens
    \/ ParseBehaviorStep
    \/ SkipToken
    \/ ParseReturn

Spec == Init /\ [][Next]_vars

\* _parse_tokens_into_bindings entered at line 110 with the tokens of line
\* 105: the streams of the examples and every stream of at most
\* MaxFairTokens tokens
ParseInit ==
    /\ bindings_content \in
          {Join(l, <<" ">>) : l \in SeqsUpTo(TokenAlphabet, MaxFairTokens)
                                      \cup ExampleStreams \cup MultiParamExamples}
    /\ tokens = Tokenize(bindings_content)
    /\ i = 1
    /\ bindings = <<>>
    /\ pc = "parse"
    /\ LayerIdle

\* the while loop of lines 112-126 and the return of line 128
ParseNext ==
    \/ ParseBehaviorStep
    \/ SkipToken
    \/ ParseReturn

\* the function runs in one thread from call to return: a statement that
\* can execute does execute
SpecFair ==
    /\ ParseInit
    /\ [][ParseNext]_vars
    /\ WF_vars(ParseBehaviorStep)
    /\ WF_vars(SkipToken)
    /\ WF_vars(ParseReturn)

-----------------------------------------------------------------------------
(* Inputs of the layer pipeline                                            *)

\* one layer block of a keymap file: its name, its display-name property
\* (None when the block has none), whether that property stands before or
\* after the bindings property, and the text between < and >
LayerBlocks ==
    [name : {STR_BASE, STR_NAV},
     display_name : {None},
     display_pos : {"none"},
     content : {STR_kp_A, STR_three_bindings}]
    \cup
    [name : {STR_BASE, STR_NAV},
     display_name : {STR_Base_Layer},
     display_pos : {"before", "after"},
     content : {STR_kp_A, STR_three_bindings}]

\* the blocks without a display-name property
PlainBlocks == {b \in LayerBlocks : b.display_pos = "none"}

DisplayNameLine(b) ==
    STR_display_name_open \o b.display_name \o STR_display_name_close \o NL

\* the text of one layer block, laid out as in the test fixtures
BlockText(b) ==
    STR_layer_indent \o b.name \o STR_layer_open \o NL
        \o (IF b.display_pos = "before" THEN DisplayNameLine(b) ELSE <<>>)
        \o STR_bindings_open \o b.content \o <<">", ";">> \o NL
        \o (IF b.display_pos = "after" THEN DisplayNameLine(b) ELSE <<>>)
        \o STR_layer_close \o NL

RECURSIVE Concat(_)
Concat(parts) == IF parts = <<>> THEN <<>> ELSE parts[1] \o Concat(Tail(parts))

\* the text of a keymap file holding the given layer blocks
KeymapText(blocks) ==
    STR_root_open \o NL \o STR_keymap_open \o NL \o STR_compatible \o NL
        \o Concat([k \in 1..Len(blocks) |-> BlockText(blocks[k])])
        \o STR_keymap_close \o NL \o STR_root_close \o NL

\* a keymap file whose keymap block opens on the first line and closes on
\* the last, which has no line terminator
BareKeymapText(blocks) ==
    STR_keymap_open \o NL \o STR_compatible \o NL
        \o Concat([k \in 1..Len(blocks) |-> BlockText(blocks[k])])
        \o STR_keymap_close

\* a keymap file whose opening brace stands on the line below the node name
BraceBelowText(blocks) ==
    STR_root_open \o NL \o <<" "," "," "," ","k","e","y","m","a","p">> \o NL \o <<" "," "," "," ","{">> \o NL
        \o STR_compatible \o NL
        \o Concat([k \in 1..Len(blocks) |-> BlockText(blocks[k])])
        \o STR_keymap_close \o NL \o STR_root_close \o NL

\* a keymap file cut off before the closing lines of its keymap block
UnclosedText(blocks) ==
    STR_root_open \o NL \o STR_keymap_open \o NL \o STR_compatible \o NL
        \o Concat([k \in 1..Len(blocks) |-> BlockText(blocks[k])])

\* a keymap file with an include line and an empty line above the root node
IncludeText(blocks) == <<"#","i","n","c","l","u","d","e"," ","<","b","e","h","a","v","i","o","r","s",".","d","t","s","i",">">> \o NL \o NL \o KeymapText(blocks)

\* a keymap file whose keymap block opens and closes on one line
SingleLineText(blocks) ==
    STR_root_open \o NL
        \o STR_keymap_open
        \o Concat([k \in 1..Len(blocks) |->
                     <<" ">> \o blocks[k].name \o STR_layer_open
                         \o STR_bindings_open \o blocks[k].content
                         \o <<">", ";">> \o STR_layer_close])
        \o STR_keymap_close \o NL
        \o STR_root_close \o NL

\* a block of a macros node, which the layer pattern matches
MacroBlock ==
    [name |-> <<"z","e","d">>, display_name |-> None, display_pos |-> "none",
     content |-> <<"&","k","p"," ","L","E","F","T","_","S","H","I","F","T"," ","&","k","p"," ","Z">>]

\* a keymap file with a macros node above the keymap section: the first
\* block stands in the macros node, the others in the keymap section
MacroOutsideText(blocks) ==
    STR_root_open \o NL
        \o <<" "," "," "," ","m","a","c","r","o","s"," ","{">> \o NL
        \o BlockText(Head(blocks))
        \o STR_keymap_close \o NL
        \o STR_keymap_open \o NL \o STR_compatible \o NL
        \o Concat([k \in 1..Len(Tail(blocks)) |-> BlockText(Tail(blocks)[k])])
        \o STR_keymap_close \o NL \o STR_root_close \o NL

Forms ==
    {"rooted", "bare", "brace_below", "unclosed", "include", "single_line"}

KeymapFileText(form, blocks) ==
    CASE form = "rooted" -> KeymapText(blocks)
      [] form = "bare" -> BareKeymapText(blocks)
      [] form = "brace_below" -> BraceBelowText(blocks)
      [] form = "unclosed" -> UnclosedText(blocks)
      [] form = "include" -> IncludeText(blocks)
      [] form = "single_line" -> SingleLineText(blocks)
      [] form = "macro_outside" -> MacroOutsideText(blocks)

MainLayout == [layout |-> << <<"X", "X">>, <<"-", "X">> >>]

\* the layout of test_complex_binding_alignment, its cells the number 1
NumericLayout == [layout |-> << <<"1", "1">>, <<"1", "1">> >>]

\* the layout of the fixture of test_align_keymap.py
TestLayout ==
    [layout |-> << <<"X", "X", "X", "X">>,
                   <<"X", "X", "X", "X">>,
                   <<"-", "X", "X", "-">> >>]

Layouts ==
    { MainLayout,
      [layout |-> << <<"X">> >>],
      [layout |-> << <<"X">>, <<"X", "X">> >>],
      [layout |-> << <<"true", "false">>, <<"X", "true">> >>],
      NumericLayout,
      TestLayout,
      EmptyLayout }

\* a missing file, a file that is not JSON, a JSON object without "layout",
\* the JSON document null
BadLayoutFiles ==
    { [exists |-> FALSE, valid_json |-> FALSE, json_type |-> "object",
       data |-> EmptyLayout],
      [exists |-> TRUE, valid_json |-> FALSE, json_type |-> "object",
       data |-> EmptyLayout],
      [exists |-> TRUE, valid_json |-> TRUE, json_type |-> "object",
       data |-> [name |-> STR_BASE]],
      [exists |-> TRUE, valid_json |-> TRUE, json_type |-> "null",
       data |-> EmptyLayout] }

\* the layer blocks of the test fixtures
FourBindingsBlock ==
    [name |-> STR_BASE, display_name |-> None, display_pos |-> "none",
     content |-> <<"\n","&","k","p"," ","A"," ","&","k","p"," ","B","\n","&","h","m","r"," ","&","c","a","p","s","_","w","o","r","d"," ","R","A","L","T"," ","&","k","p"," ","C","\n"," "," "," "," "," "," "," "," "," "," "," "," ">>]

TenBindingsBlock ==
    [name |-> STR_BASE, display_name |-> None, display_pos |-> "none",
     content |-> <<"\n"," "," "," "," "," "," "," "," "," "," "," "," "," "," "," "," ","&","k","p"," ","A"," ","&","k","p"," ","B"," ","&","k","p"," ","C"," ","&","k","p"," ","D"," ","&","k","p"," ","E"," ","&","k","p"," ","F"," ","&","k","p"," ","G"," ","&","k","p"," ","H"," ","&","k","p"," ","I"," ","&","k","p"," ","J","\n"," "," "," "," "," "," "," "," "," "," "," "," ">>]

TenMixedBlock ==
    [name |-> STR_NAV, display_name |-> None, display_pos |-> "none",
     content |-> <<"&","t","r","a","n","s"," ","&","n","o","n","e"," ","&","t","o","g"," ","1"," ","&","t","o"," ","0"," ","&","m","o"," ","2"," ","&","k","p"," ","L","S","H","I","F","T"," ","&","k","p"," ","N","1"," ","&","t","r","a","n","s"," ","&","k","p"," ","R","A","L","T"," ","&","n","o","n","e">>]

TwoBindingsBlock ==
    [name |-> STR_BASE, display_name |-> None, display_pos |-> "none",
     content |-> <<"\n"," "," "," "," "," "," "," "," "," "," "," "," "," "," "," "," ","&","k","p"," ","A"," ","&","k","p"," ","B"," "," ","/","/"," ","O","n","l","y"," ","2"," ","b","i","n","d","i","n","g","s",","," ","b","u","t"," ","l","a","y","o","u","t"," ","e","x","p","e","c","t","s"," ","1","0","\n"," "," "," "," "," "," "," "," "," "," "," "," ">>]

Input(blocks, form, lay_file, exists, out, dbg) ==
    [blocks |-> blocks, form |-> form, layout_file |-> lay_file,
     keymap_exists |-> exists, output_file |-> out, debug |-> dbg]

\* one run of align_keymap_with_layout: the blocks and the form of the keymap
\* file, the layout file, output_file and debug
LayerInputs ==
    { Input(bs, "rooted", LayoutFileOf(MainLayout), TRUE, "", FALSE) :
        bs \in SeqsUpTo(LayerBlocks, MaxBlocks)
                 \cup SeqsUpTo(PlainBlocks, MaxPlainBlocks) }
    \cup { Input(bs, "rooted", LayoutFileOf(lay), TRUE, "", dbg) :
        bs \in SeqsUpTo(LayerBlocks, 1), lay \in Layouts, dbg \in BOOLEAN }
    \cup { Input(bs, form, LayoutFileOf(MainLayout), TRUE, out, dbg) :
        bs \in SeqsUpTo(PlainBlocks, 1), form \in Forms,
        out \in {"", OUTPUT_PATH}, dbg \in BOOLEAN }
    \cup { Input(bs, "rooted", LayoutFileOf([layout |-> << <<"X", "-", "X">> >>]), TRUE, "", FALSE) :
        bs \in SeqsUpTo(PlainBlocks, 2) }
    \cup { Input(<<b>>, "rooted", f, TRUE, "", FALSE) :
        b \in PlainBlocks, f \in BadLayoutFiles }
    \cup { Input(<<b>>, "rooted", LayoutFileOf(MainLayout), FALSE, "", FALSE) :
        b \in PlainBlocks }
    \cup { Input(<<MacroBlock>> \o bs, "macro_outside",
                 LayoutFileOf(MainLayout), TRUE, out, FALSE) :
        bs \in SeqsUpTo(PlainBlocks, 1), out \in {"", OUTPUT_PATH} }
    \cup { Input(<< [name |-> STR_NAV, display_name |-> <<>>,
                    display_pos |-> "before", content |-> STR_kp_A] >>,
                 "rooted", LayoutFileOf(MainLayout),
                 TRUE, "", FALSE) }
    \cup { Input(bs, form, LayoutFileOf(lay), TRUE, OUTPUT_PATH, FALSE) :
        bs \in { <<FourBindingsBlock>>, <<TenBindingsBlock>>,
                 <<TwoBindingsBlock>>, <<TenBindingsBlock, TenMixedBlock>> },
        form \in {"rooted", "include", "bare"},
        lay \in {NumericLayout, TestLayout} }

-----------------------------------------------------------------------------
(* align_keymap_with_layout, one action per step: load_layout, the read of *)
(* the keymap file, extract_all_layers, build_layer_structure,             *)
(* calculate_column_widths, the debug branch, the section splicer,         *)
(* format_layer and the file write.  layer_pc = "done" is `return True`,   *)
(* "failed" is `return False`, "IndexError" and "TypeError" an uncaught     *)
(* exception of that class.                                                *)

TokenizerIdle ==
    /\ bindings_content = <<>>
    /\ tokens = <<>>
    /\ i = 1
    /\ bindings = <<>>
    /\ pc = "idle"

LayerInit ==
    /\ TokenizerIdle
    /\ \E inp \in LayerInputs :
          /\ source_blocks = inp.blocks
          /\ keymap_file = [path |-> KEYMAP_PATH, exists |-> inp.keymap_exists,
                            text |-> KeymapFileText(inp.form, inp.blocks)]
          /\ layout_file = inp.layout_file
          /\ output_file = inp.output_file
          /\ debug = inp.debug
    /\ keymap_content = <<>>
    /\ layout = EmptyLayout
    /\ scan_pos = 1
    /\ layers = <<>>
    /\ structured_layers = <<>>
    /\ column_widths = <<>>
    /\ keymap_lines = <<>>
    /\ lines = <<>>
    /\ keymap_start_idx = 0
    /\ keymap_end_idx = 0
    /\ output_content = <<>>
    /\ opened = <<>>
    /\ written = <<>>
    /\ error = ""
    /\ layer_pc = "load"

\* line 441, load_layout returns the layout
LoadLayout ==
    /\ layer_pc = "load"
    /\ LayoutLoads(layout_file)
    /\ layout' = load_layout(layout_file)
    /\ layer_pc' = "read"
    /\ UNCHANGED <<source_blocks, keymap_content, scan_pos, layers,
                   structured_layers, column_widths, keymap_lines, lines,
                   keymap_start_idx, keymap_end_idx, output_content>>
    /\ UNCHANGED <<tokenizer_vars, input_vars, write_vars, error>>

\* lines 441-443, load_layout returns None
LoadLayoutFails ==
    /\ layer_pc = "load"
    /\ ~LayoutLoads(layout_file)
    /\ ~LoadLayoutTypeError(layout_file)
    /\ error' = LoadLayoutError(layout_file)
    /\ layer_pc' = "failed"
    /\ UNCHANGED <<source_blocks, keymap_content, layout, scan_pos, layers,
                   structured_layers, column_widths, keymap_lines, lines,
                   keymap_start_idx, keymap_end_idx, output_content>>
    /\ UNCHANGED <<tokenizer_vars, input_vars, write_vars>>

\* line 204 raises TypeError, which lines 210-215 do not catch
LoadLayoutRaises ==
    /\ layer_pc = "load"
    /\ LoadLayoutTypeError(layout_file)
    /\ layer_pc' = "TypeError"
    /\ UNCHANGED <<source_blocks, keymap_content, layout, scan_pos, layers,
                   structured_layers, column_widths, keymap_lines, lines,
                   keymap_start_idx, keymap_end_idx, output_content>>
    /\ UNCHANGED <<tokenizer_vars, input_vars, write_vars, error>>

\* lines 445-447
ReadKeymap ==
    /\ layer_pc = "read"
    /\ keymap_file.exists
    /\ keymap_content' = keymap_file.text
    /\ layer_pc' = "extract"
    /\ UNCHANGED <<source_blocks, layout, scan_pos, layers,
                   structured_layers, column_widths, keymap_lines, lines,
                   keymap_start_idx, keymap_end_idx, output_content>>
    /\ UNCHANGED <<tokenizer_vars, input_vars, write_vars, error>>

\* lines 448-450
ReadKeymapFails ==
    /\ layer_pc = "read"
    /\ ~keymap_file.exists
    /\ error' = "Keymap file not found"
    /\ layer_pc' = "failed"
    /\ UNCHANGED <<source_blocks, keymap_content, layout, scan_pos, layers,
                   structured_layers, column_widths, keymap_lines, lines,
                   keymap_start_idx, keymap_end_idx, output_content>>
    /\ UNCHANGED <<tokenizer_vars, input_vars, write_vars>>

\* lines 190-194: one iteration of the loop over re.finditer
ExtractLayer ==
    /\ layer_pc = "extract"
    /\ LET m == NextLayerMatch(keymap_content, scan_pos)
       IN  /\ m.found
           /\ layers' = DictSet(layers, m.group1,
                                extract_bindings_from_content(m.group2))
           /\ scan_pos' = m.end
    /\ UNCHANGED <<source_blocks, keymap_content, layout,
                   structured_layers, column_widths, keymap_lines,
                   layer_pc, lines, keymap_start_idx, keymap_end_idx,
                   output_content>>
    /\ UNCHANGED <<tokenizer_vars, input_vars, write_vars, error>>

\* line 196: no further match, return layers
ExtractReturn ==
    /\ layer_pc = "extract"
    /\ ~NextLayerMatch(keymap_content, scan_pos).found
    /\ layer_pc' = "extracted"
    /\ UNCHANGED <<source_blocks, keymap_content, layout, scan_pos, layers,
                   structured_layers, column_widths, keymap_lines, lines,
                   keymap_start_idx, keymap_end_idx, output_content>>
    /\ UNCHANGED <<tokenizer_vars, input_vars, write_vars, error>>

\* lines 453-455 without the return: the run goes on to line 458
NoLayersFoundIgnored ==
    /\ layer_pc = "extracted"
    /\ layers = <<>>
    /\ layer_pc' = "built"
    /\ UNCHANGED <<source_blocks, keymap_content, layout, scan_pos, layers,
                   structured_layers, column_widths, keymap_lines, lines,
                   keymap_start_idx, keymap_end_idx, output_content>>
    /\ UNCHANGED <<tokenizer_vars, input_vars, write_vars, error>>

\* lines 453-455: `if not layers: return False`
NoLayersFound ==
    /\ layer_pc = "extracted"
    /\ layers = <<>>
    /\ error' = "No layers found in keymap file"
    /\ layer_pc' = "failed"
    /\ UNCHANGED <<source_blocks, keymap_content, layout, scan_pos, layers,
                   structured_layers, column_widths, keymap_lines, lines,
                   keymap_start_idx, keymap_end_idx, output_content>>
    /\ UNCHANGED <<tokenizer_vars, input_vars, write_vars>>

\* line 458
BuildLayerStructure ==
    /\ layer_pc = "extracted"
    /\ layers # <<>>
    /\ structured_layers' = build_layer_structure(layers, layout)
    /\ layer_pc' = "built"
    /\ UNCHANGED <<source_blocks, keymap_content, layout, scan_pos, layers,
                   column_widths, keymap_lines, lines, keymap_start_idx,
                   keymap_end_idx, output_content>>
    /\ UNCHANGED <<tokenizer_vars, input_vars, write_vars, error>>

\* line 459
CalculateColumnWidths ==
    /\ layer_pc = "built"
    /\ ~WidthsIndexError(structured_layers, layout)
    /\ column_widths' = calculate_column_widths(structured_layers, layout,
                                                DEFAULT_COLUMN_PADDING)
    /\ layer_pc' = "widths"
    /\ UNCHANGED <<source_blocks, keymap_content, layout, scan_pos, layers,
                   structured_layers, keymap_lines, lines,
                   keymap_start_idx, keymap_end_idx, output_content>>
    /\ UNCHANGED <<tokenizer_vars, input_vars, write_vars, error>>

\* line 459, the IndexError of line 257 propagating to the caller
CalculateColumnWidthsRaises ==
    /\ layer_pc = "built"
    /\ WidthsIndexError(structured_layers, layout)
    /\ layer_pc' = "IndexError"
    /\ UNCHANGED <<source_blocks, keymap_content, layout, scan_pos, layers,
                   structured_layers, column_widths, keymap_lines, lines,
                   keymap_start_idx, keymap_end_idx, output_content>>
    /\ UNCHANGED <<tokenizer_vars, input_vars, write_vars, error>>

\* lines 461-464 without the return of line 465: the report is printed and
\* the run goes on to line 468
DebugNoReturn ==
    /\ layer_pc = "widths"
    /\ debug
    /\ ~DebugIndexError(layout)
    /\ lines' = SplitLines(keymap_content)
    /\ keymap_start_idx' = FindKeymapStart(lines')
    /\ keymap_start_idx' # 0
    /\ layer_pc' = "start"
    /\ UNCHANGED <<source_blocks, keymap_content, layout, scan_pos, layers,
                   structured_layers, column_widths, keymap_lines,
                   keymap_end_idx, output_content>>
    /\ UNCHANGED <<tokenizer_vars, input_vars, write_vars, error>>

\* lines 461-465: the debug branch prints and returns True
DebugReturn ==
    /\ layer_pc = "widths"
    /\ debug
    /\ ~DebugIndexError(layout)
    /\ layer_pc' = "done"
    /\ UNCHANGED <<source_blocks, keymap_content, layout, scan_pos, layers,
                   structured_layers, column_widths, keymap_lines, lines,
                   keymap_start_idx, keymap_end_idx, output_content>>
    /\ UNCHANGED <<tokenizer_vars, input_vars, write_vars, error>>

\* lines 462-464, an IndexError of the debug printers propagating
DebugRaises ==
    /\ layer_pc = "widths"
    /\ debug
    /\ DebugIndexError(layout)
    /\ layer_pc' = "IndexError"
    /\ UNCHANGED <<source_blocks, keymap_content, layout, scan_pos, layers,
                   structured_layers, column_widths, keymap_lines, lines,
                   keymap_start_idx, keymap_end_idx, output_content>>
    /\ UNCHANGED <<tokenizer_vars, input_vars, write_vars, error>>

\* lines 468-476: the opening line is found
FindStart ==
    /\ layer_pc = "widths"
    /\ ~debug
    /\ lines' = SplitLines(keymap_content)
    /\ keymap_start_idx' = FindKeymapStart(lines')
    /\ keymap_start_idx' # 0
    /\ layer_pc' = "start"
    /\ UNCHANGED <<source_blocks, keymap_content, layout, scan_pos, layers,
                   structured_layers, column_widths, keymap_lines,
                   keymap_end_idx, output_content>>
    /\ UNCHANGED <<tokenizer_vars, input_vars, write_vars, error>>

\* lines 468-480: no line holds the marker
FindStartFails ==
    /\ layer_pc = "widths"
    /\ ~debug
    /\ lines' = SplitLines(keymap_content)
    /\ FindKeymapStart(lines') = 0
    /\ error' = "Could not find 'keymap {' in the file"
    /\ layer_pc' = "failed"
    /\ UNCHANGED <<source_blocks, keymap_content, layout, scan_pos, layers,
                   structured_layers, column_widths, keymap_lines,
                   keymap_start_idx, keymap_end_idx, output_content>>
    /\ UNCHANGED <<tokenizer_vars, input_vars, write_vars>>

\* lines 483-490: the closing line is found
FindEnd ==
    /\ layer_pc = "start"
    /\ keymap_end_idx' = FindKeymapEnd(lines, keymap_start_idx)
    /\ keymap_end_idx' # 0
    /\ layer_pc' = "located"
    /\ UNCHANGED <<source_blocks, keymap_content, layout, scan_pos, layers,
                   structured_layers, column_widths, keymap_lines, lines,
                   keymap_start_idx, output_content>>
    /\ UNCHANGED <<tokenizer_vars, input_vars, write_vars, error>>

\* line 517
target_file == IF output_file # "" THEN output_file ELSE keymap_file.path

\* lines 483-494 with the target file opened before the section is located
FindEndFailsAfterOpen ==
    /\ layer_pc = "start"
    /\ FindKeymapEnd(lines, keymap_start_idx) = 0
    /\ opened' = Append(opened, target_file)
    /\ error' = "Could not find end of keymap section"
    /\ layer_pc' = "failed"
    /\ UNCHANGED <<source_blocks, keymap_content, layout, scan_pos, layers,
                   structured_layers, column_widths, keymap_lines, lines,
                   keymap_start_idx, keymap_end_idx, output_content, written>>
    /\ UNCHANGED <<tokenizer_vars, input_vars>>

\* lines 483-494: brace_count is zero on no later line
FindEndFails ==
    /\ layer_pc = "start"
    /\ FindKeymapEnd(lines, keymap_start_idx) = 0
    /\ error' = "Could not find end of keymap section"
    /\ layer_pc' = "failed"
    /\ UNCHANGED <<source_blocks, keymap_content, layout, scan_pos, layers,
                   structured_layers, column_widths, keymap_lines, lines,
                   keymap_start_idx, keymap_end_idx, output_content>>
    /\ UNCHANGED <<tokenizer_vars, input_vars, write_vars>>

\* line 501
BeginKeymapLines ==
    /\ layer_pc = "located"
    /\ keymap_lines' = <<STR_keymap_open, STR_compatible>>
    /\ layer_pc' = "format"
    /\ UNCHANGED <<source_blocks, keymap_content, layout, scan_pos, layers,
                   structured_layers, column_widths, lines,
                   keymap_start_idx, keymap_end_idx, output_content>>
    /\ UNCHANGED <<tokenizer_vars, input_vars, write_vars, error>>

\* the layer the loop of line 502 renders next
NextLayerIndex == Len(keymap_lines) - 1

\* lines 502-504 with the rendered layer put in front of the layers
\* rendered before it
FormatLayerInFront ==
    /\ layer_pc = "format"
    /\ NextLayerIndex <= Len(structured_layers)
    /\ LET l == structured_layers[NextLayerIndex]
       IN  /\ ~FormatIndexError(l.value, column_widths)
           /\ keymap_lines' =
                <<STR_keymap_open, STR_compatible,
                  format_layer(l.key, l.value, column_widths)>>
                    \o SubSeq(keymap_lines, 3, Len(keymap_lines))
    /\ UNCHANGED <<source_blocks, keymap_content, layout, scan_pos, layers,
                   structured_layers, column_widths, layer_pc, lines,
                   keymap_start_idx, keymap_end_idx, output_content>>
    /\ UNCHANGED <<tokenizer_vars, input_vars, write_vars, error>>

\* lines 502-504: one iteration of the loop over structured_layers
FormatLayer ==
    /\ layer_pc = "format"
    /\ NextLayerIndex <= Len(structured_layers)
    /\ LET l == structured_layers[NextLayerIndex]
       IN  /\ ~FormatIndexError(l.value, column_widths)
           /\ keymap_lines' =
                Append(keymap_lines, format_layer(l.key, l.value, column_widths))
    /\ UNCHANGED <<source_blocks, keymap_content, layout, scan_pos, layers,
                   structured_layers, column_widths, layer_pc, lines,
                   keymap_start_idx, keymap_end_idx, output_content>>
    /\ UNCHANGED <<tokenizer_vars, input_vars, write_vars, error>>

\* line 503, the IndexError of lines 270/272 propagating to the caller
FormatLayerRaises ==
    /\ layer_pc = "format"
    /\ NextLayerIndex <= Len(structured_layers)
    /\ FormatIndexError(structured_layers[NextLayerIndex].value, column_widths)
    /\ layer_pc' = "IndexError"
    /\ UNCHANGED <<source_blocks, keymap_content, layout, scan_pos, layers,
                   structured_layers, column_widths, keymap_lines, lines,
                   keymap_start_idx, keymap_end_idx, output_content>>
    /\ UNCHANGED <<tokenizer_vars, input_vars, write_vars, error>>

\* line 510: every layer is rendered
EndKeymapLines ==
    /\ layer_pc = "format"
    /\ NextLayerIndex > Len(structured_layers)
    /\ keymap_lines' = Append(keymap_lines, STR_keymap_close)
    /\ layer_pc' = "formatted"
    /\ UNCHANGED <<source_blocks, keymap_content, layout, scan_pos, layers,
                   structured_layers, column_widths, lines,
                   keymap_start_idx, keymap_end_idx, output_content>>
    /\ UNCHANGED <<tokenizer_vars, input_vars, write_vars, error>>

\* lines 511-514
Assemble ==
    /\ layer_pc = "formatted"
    /\ output_content' = AssembleOutput(lines, keymap_start_idx, keymap_end_idx,
                                        keymap_lines)
    /\ layer_pc' = "assembled"
    /\ UNCHANGED <<source_blocks, keymap_content, layout, scan_pos, layers,
                   structured_layers, column_widths, keymap_lines, lines,
                   keymap_start_idx, keymap_end_idx>>
    /\ UNCHANGED <<tokenizer_vars, input_vars, write_vars, error>>

\* lines 519-534: the target is opened, written and closed
WriteOutput ==
    /\ layer_pc = "assembled"
    /\ opened' = Append(opened, target_file)
    /\ written' = Append(written, [file |-> target_file, text |-> output_content])
    /\ layer_pc' = "done"
    /\ UNCHANGED <<source_blocks, keymap_content, layout, scan_pos, layers,
                   structured_layers, column_widths, keymap_lines, lines,
                   keymap_start_idx, keymap_end_idx, output_content>>
    /\ UNCHANGED <<tokenizer_vars, input_vars, error>>

\* lines 519-530: open() or f.write() raises IOError
WriteOutputFails ==
    /\ layer_pc = "assembled"
    /\ \E at \in {"open", "write"} :
          /\ opened' = Append(opened, target_file)
          /\ written' = IF at = "write"
                        THEN Append(written, [file |-> target_file,
                                              text |-> output_content])
                        ELSE written
    /\ error' = "Error writing to file"
    /\ layer_pc' = "failed"
    /\ UNCHANGED <<source_blocks, keymap_content, layout, scan_pos, layers,
                   structured_layers, column_widths, keymap_lines, lines,
                   keymap_start_idx, keymap_end_idx, output_content>>
    /\ UNCHANGED <<tokenizer_vars, input_vars>>

LayerNext ==
    \/ LoadLayout
    \/ LoadLayoutFails
    \/ LoadLayoutRaises
    \/ ReadKeymap
    \/ ReadKeymapFails
    \/ ExtractLayer
    \/ ExtractReturn
    \/ NoLayersFound
    \/ BuildLayerStructure
    \/ CalculateColumnWidths
    \/ CalculateColumnWidthsRaises
    \/ DebugReturn
    \/ DebugRaises
    \/ FindStart
    \/ FindStartFails
    \/ FindEnd
    \/ FindEndFails
    \/ BeginKeymapLines
    \/ FormatLayer
    \/ FormatLayerRaises
    \/ EndKeymapLines
    \/ Assemble
    \/ WriteOutput
    \/ WriteOutputFails

SpecLayers == LayerInit /\ [][LayerNext]_vars

-----------------------------------------------------------------------------
(* Properties of the tokenizer                                             *)

IsSigil(t) == StartsWith(t, SIGIL)

SP == <<" ">>

SigilPositions(toks) == {k \in 1..Len(toks) : IsSigil(toks[k])}

\* the first sigil-prefixed position after k, or Len(toks) + 1
NextSigil(toks, k) ==
    IF \E m \in SigilPositions(toks) : m > k
    THEN SetMin({m \in SigilPositions(toks) : m > k})
    ELSE Len(toks) + 1

\* the position of the j-th sigil-prefixed token
NthSigil(toks, j) ==
    CHOOSE k \in SigilPositions(toks) :
        Cardinality({m \in SigilPositions(toks) : m <= k}) = j

\* C1: "&lt 1 &caps_word" and "&magic 1 &some_behavior" each tokenize to a
\* single binding holding all three tokens.
C1_NestedAfterPlainKept ==
    pc = "done" =>
        /\ tokens = <<T_lt, T_1, T_caps_word>>
              => bindings = <<Join(<<T_lt, T_1, T_caps_word>>, SP)>>
        /\ tokens = <<T_magic, T_1, T_some_behavior>>
              => bindings = <<Join(<<T_magic, T_1, T_some_behavior>>, SP)>>

\* C2: "&td 0 &kp ESC" and "&hml LCTRL &kp A" each tokenize to a single
\* binding holding all four tokens.
C2_NestedSecondParamWithOwnParam ==
    pc = "done" =>
        /\ tokens = <<T_td, T_0, T_kp, T_ESC>>
              => bindings = <<Join(<<T_td, T_0, T_kp, T_ESC>>, SP)>>
        /\ tokens = <<T_hml, T_LCTRL, T_kp, T_A>>
              => bindings = <<Join(<<T_hml, T_LCTRL, T_kp, T_A>>, SP)>>

\* a stream of standard behavior references, each followed by zero or more
\* non-sigil tokens
StandardStream(toks) ==
    /\ toks # <<>> => IsSigil(toks[1])
    /\ \A k \in SigilPositions(toks) : Lower(toks[k]) \notin MULTI_PARAM_BEHAVIORS

C4_MultiParamTwoPlain ==
    /\ [][ ( /\ pc = "parse"
             /\ i + 2 <= Len(tokens)
             /\ Lower(tokens[i]) \in MULTI_PARAM_BEHAVIORS
             /\ ~IsSigil(tokens[i + 1])
             /\ ~IsSigil(tokens[i + 2])
             /\ <<i, bindings, pc>>' # <<i, bindings, pc>> )
           => ( /\ i' = i + 3
                /\ bindings' = Append(bindings, Join(SubSeq(tokens, i, i + 2), SP)) )
         ]_vars
    /\ [][ ( /\ pc = "parse"
             /\ i <= Len(tokens)
             /\ IsSigil(tokens[i])
             /\ <<i, bindings, pc>>' # <<i, bindings, pc>> )
           => ( /\ Len(bindings') = Len(bindings) + 1
                /\ StartsWith(bindings'[Len(bindings')], tokens[i]) )
         ]_vars
    /\ [] ( (pc = "done" /\ tokens = <<T_hml, T_LCTRL, T_A, T_lt, T_1, T_SPACE>>)
            => bindings = << Join(<<T_hml, T_LCTRL, T_A>>, SP),
                             Join(<<T_lt, T_1, T_SPACE>>, SP) >> )

C4_Witness ==
    /\ pc = "parse"
    /\ Len(tokens) >= 4
    /\ Lower(tokens[1]) \in MULTI_PARAM_BEHAVIORS
    /\ ~IsSigil(tokens[2])
    /\ ~IsSigil(tokens[3])
    /\ IsSigil(tokens[4])
    /\ i = 4
    /\ bindings = <<Join(SubSeq(tokens, 1, 3), SP)>>

\* the content with every comment deleted, scanning left to right: "//" opens
\* a comment that runs to the end of the line, "/*" one that runs to the next
\* "*/"; a comment opener inside a comment does not open another comment
RECURSIVE RemoveCommentsFrom(_, _)
RemoveCommentsFrom(s, p) ==
    IF p > Len(s) THEN <<>>
    ELSE IF p < Len(s) /\ s[p] = "/" /\ s[p + 1] = "/"
         THEN RemoveCommentsFrom(s, EndOfLine(s, p))
    ELSE IF /\ p < Len(s) /\ s[p] = "/" /\ s[p + 1] = "*"
            /\ Find(s, <<"*", "/">>, p + 2) # 0
         THEN RemoveCommentsFrom(s, Find(s, <<"*", "/">>, p + 2) + 2)
    ELSE <<s[p]>> \o RemoveCommentsFrom(s, p + 1)

RemoveComments(s) == RemoveCommentsFrom(s, 1)

\* C5: text inside a line comment or a block comment contributes no token:
\* the bindings of a content are the bindings of the content with its
\* comments removed.
C5_CommentsContributeNothing ==
    pc = "done" =>
        bindings = extract_bindings_from_content(RemoveComments(bindings_content))

\* C6: joining the returned bindings with spaces and tokenizing that text
\* again returns the same bindings.
C6_Idempotent ==
    pc = "done" =>
        extract_bindings_from_content(Join(bindings, SP)) = bindings

C6_Witness ==
    /\ pc = "done"
    /\ Len(bindings) >= 2
    /\ Len(Split(Join(bindings, SP))) < Len(tokens)

\* the first sigil-prefixed position, or Len(toks) + 1
FirstSigil(toks) == NextSigil(toks, 0)

LastBindingFull ==
    /\ bindings # <<>>
    /\ LET last == Split(bindings[Len(bindings)])
       IN  /\ Lower(last[1]) \in MULTI_PARAM_BEHAVIORS
           /\ Len(last) = 3

-----------------------------------------------------------------------------
(* Properties of the layer pipeline                                        *)

\* extract_all_layers has returned
PastExtraction ==
    /\ layer_pc \notin {"idle", "load", "read", "extract", "TypeError"}
    /\ error \notin {"Layout file not found", "Invalid JSON in layout file",
                      "Layout file must contain a 'layout' field",
                      "Keymap file not found"}

\* the last block of the sequence that bears the name
LastBlockNamed(blocks, name) ==
    blocks[SetMax({k \in 1..Len(blocks) : blocks[k].name = name})]

\* C8: every layer block of the source is found, with or without a
\* display-name property before its bindings, and returned with its bindings
\* and its display label (absent when the block has no such property).
C8_LayersFoundWithDisplayName ==
    PastExtraction =>
        \A k \in 1..Len(source_blocks) :
            LET b == LastBlockNamed(source_blocks, source_blocks[k].name)
            IN  /\ DictHas(layers, b.name)
                /\ DictGet(layers, b.name) = extract_bindings_from_content(b.content)
                /\ LayerDisplayName(layers, b.name) = b.display_name

\* the rendered text of the layer in keymap_lines
RenderedLayers(name) ==
    { keymap_lines[j] : j \in { j \in 3..(Len(keymap_lines) - 1) :
          StartsWith(keymap_lines[j],
                     STR_layer_indent \o name \o STR_layer_open \o NL) } }

\* C9: the rendered text of a layer holds the line display-name = "<label>";
\* when the layer has a display label and no display-name line when it has
\* none.
C9_DisplayNameRendered ==
    layer_pc = "formatted" =>
        \A k \in 1..Len(source_blocks) :
            LET b == LastBlockNamed(source_blocks, source_blocks[k].name)
            IN  \E text \in RenderedLayers(b.name) :
                    IF b.display_name # None
                    THEN Contains(text, STR_display_name_eq \o b.display_name
                                            \o STR_display_name_close)
                    ELSE ~Contains(text, STR_display_name)

\* the blocks the layer pattern of extract_all_layers describes: a name, an
\* opening brace and the bindings property
Occurrences == SelectSeq(source_blocks, LAMBDA b : b.display_pos # "before")

\* the elements of a sequence in order of first occurrence
RECURSIVE FirstOccurrences(_)
FirstOccurrences(xs) ==
    IF xs = <<>> THEN <<>>
    ELSE LET init == SubSeq(xs, 1, Len(xs) - 1)
             last == xs[Len(xs)]
         IN  IF \E k \in 1..Len(init) : init[k] = last
             THEN FirstOccurrences(init)
             ELSE Append(FirstOccurrences(init), last)

-----------------------------------------------------------------------------
(* Properties of build_layer_structure                                     *)

Min(a, b) == IF a <= b THEN a ELSE b

\* the cells of a grid, or of a layout matrix, in row-major order
Flatten(grid) == Concat(grid)

\* the bindings placed in a grid, in row-major order
PlacedBindings(grid) == SelectSeq(Flatten(grid), LAMBDA cell : cell # None)

\* the number of active cells of a layout matrix, active as line 232 has it
ActiveCells(matrix) ==
    Len(SelectSeq(Flatten(matrix), LAMBDA cell : cell = "X"))

\* build_layer_structure has returned
Built == structured_layers # <<>>

KeyMarkers == {"X", "1", "true"}

\* the number of cells of a layout matrix that bear a key marker
MarkedCells(matrix) ==
    Len(SelectSeq(Flatten(matrix), LAMBDA cell : cell \in KeyMarkers))

\* C12: every cell marked "X", 1 or true is an active position that receives
\* a binding: the grid of a layer holds its first min(bindings, marked cells)
\* bindings, and the written output holds each of them.
C12_TruthyMarkersActive ==
    /\ Built =>
          \A k \in 1..Len(layers) :
              PlacedBindings(structured_layers[k].value)
                  = SubSeq(layers[k].value, 1,
                           Min(Len(layers[k].value), MarkedCells(layout.layout)))
    /\ layer_pc = "done" /\ written # <<>> =>
          \A k \in 1..Len(layers) :
              \A j \in 1..Min(Len(layers[k].value), MarkedCells(layout.layout)) :
                  Contains(written[1].text, layers[k].value[j])

-----------------------------------------------------------------------------
(* Properties of calculate_column_widths and format_layer                  *)

\* calculate_column_widths has returned
WidthsComputed ==
    layer_pc \in {"widths", "start", "located", "format", "formatted",
                  "assembled", "done"}

\* the cells <<layer, row>> of the grids that hold a binding in column c
PlacedInColumn(c) ==
    { cell \in UNION { {<<k, r>> : r \in 1..Len(structured_layers[k].value)} :
                         k \in 1..Len(structured_layers) } :
        /\ c <= Len(structured_layers[cell[1]].value[cell[2]])
        /\ structured_layers[cell[1]].value[cell[2]][c] # None }

BindingAt(k, r, c) == structured_layers[k].value[r][c]

Formatted == Built /\ Len(keymap_lines) = Len(structured_layers) + 3

\* the line of row r in the rendered text of layer k: the rows follow the
\* two opening lines of the layer
RowLine(k, r) == SplitLines(keymap_lines[k + 2])[r + 2]

RECURSIVE SumTo(_, _)
SumTo(widths, n) == IF n = 0 THEN 0 ELSE SumTo(widths, n - 1) + widths[n]

\* the offset of column c on a row line: the base indentation and the
\* widths of the columns before c
ColumnOffset(c) == Len(STR_row_indent) + SumTo(column_widths, c - 1)

\* the columns of row r of layer k that hold a binding
PlacedColumns(k, r) ==
    { c \in 1..Len(structured_layers[k].value[r]) : BindingAt(k, r, c) # None }

\* C14: in the rendered layers of one run, the binding placed in column c
\* starts at the offset of column c (base indentation plus the widths of
\* the columns before c) in every row of every layer, and at least 2 spaces
\* and nothing else stand between it and the next binding of its line.
C14_ColumnsAligned ==
    Formatted =>
        \A k \in 1..Len(structured_layers) :
            \A r \in 1..Len(structured_layers[k].value) :
                \A c \in PlacedColumns(k, r) :
                    LET b    == BindingAt(k, r, c)
                        line == RowLine(k, r)
                        from == ColumnOffset(c)
                        next == {d \in PlacedColumns(k, r) : d > c}
                    IN  /\ from + Len(b) <= Len(line)
                        /\ SubSeq(line, from + 1, from + Len(b)) = b
                        /\ line[from] = " "
                        /\ next # {} =>
                              LET to == ColumnOffset(SetMin(next))
                              IN  /\ to - (from + Len(b)) >= 2
                                  /\ \A q \in (from + Len(b) + 1)..to :
                                        line[q] = " "

\* two layers are rendered, and a column holds a binding shorter than the
\* longest of the column with another binding after it on its line
C14_Witness ==
    /\ Formatted
    /\ Len(structured_layers) >= 2
    /\ \E k \in 1..Len(structured_layers) :
          \E r \in 1..Len(structured_layers[k].value) :
              \E c \in PlacedColumns(k, r) :
                  /\ Len(BindingAt(k, r, c)) + DEFAULT_COLUMN_PADDING
                        < column_widths[c]
                  /\ \E d \in PlacedColumns(k, r) : d > c

\* the layers of a run on the layout [[X,X,X,X],[X,X,X,X],[-,X,X,-]] that
\* supply exactly 10 bindings
TenBindingLayers ==
    IF Formatted /\ layout = TestLayout
    THEN {k \in 1..Len(layers) : Len(layers[k].value) = 10}
    ELSE {}

\* the binding block of layer k: 3 row lines between the opening and the
\* closing line of the bindings property, the bindings 1-4 and 5-8
\* left-justified in the columns of rows 1 and 2, the bindings 9 and 10
\* left-justified in row 3 behind the given number of blank columns, and
\* no row line ending in whitespace
ScenarioBlock(k, blanks) ==
    LET text == SplitLines(keymap_lines[k + 2])
        bs   == layers[k].value
        at(line, c, b) ==
            /\ ColumnOffset(c) + Len(b) <= Len(line)
            /\ SubSeq(line, ColumnOffset(c) + 1, ColumnOffset(c) + Len(b)) = b
    IN  /\ Len(text) = 7
        /\ text[2] = STR_bindings_open
        /\ text[6] = STR_bindings_close
        /\ \A c \in 1..4 : at(text[3], c, bs[c]) /\ at(text[4], c, bs[4 + c])
        /\ at(text[5], blanks + 1, bs[9])
        /\ at(text[5], blanks + 2, bs[10])
        /\ SubSeq(text[5], 1, ColumnOffset(blanks + 1))
              = Spaces(ColumnOffset(blanks + 1))
        /\ \A r \in 3..5 :
              text[r] # <<>> /\ text[r][Len(text[r])] \notin Whitespace

\* C15: for the layout [[X,X,X,X],[X,X,X,X],[-,X,X,-]] and a layer of
\* exactly 10 bindings the binding block has 3 row lines, row 3 has 2
\* leading blank columns of the computed width, every binding is
\* left-justified in its column and no row line ends in whitespace.
C15_TwoLeadingBlankColumns ==
    \A k \in TenBindingLayers : ScenarioBlock(k, 2)

\* C15 as the code has it: row 3 has 1 leading blank column of the computed
\* width, the one of column 0; the blank cell of column 3 is trimmed away.
C15_OneLeadingBlankColumn ==
    \A k \in TenBindingLayers : ScenarioBlock(k, 1)

\* the scenario is rendered, in a run of two layers of 10 bindings each
C15_Witness ==
    /\ Cardinality(TenBindingLayers) = 2
    /\ \E k \in TenBindingLayers :
          Len(layers[k].value[9]) + DEFAULT_COLUMN_PADDING < column_widths[2]

-----------------------------------------------------------------------------
(* Properties of align_keymap_with_layout                                  *)

\* the run returned True after writing its output
Aligned == layer_pc = "done" /\ written # <<>>

\* C16: aligning the output of a successful alignment against the same
\* layout succeeds again and writes the very same text.
C16_AlignmentIdempotent ==
    Aligned =>
        LET again == aligned_output(written[1].text, layout)
        IN  /\ again.result = "done"
            /\ again.text = written[1].text

\* the first alignment changed the text of a file of two layers
C16_Witness ==
    /\ Aligned
    /\ written[1].text # keymap_content
    /\ Len(layers) >= 2
    /\ aligned_output(keymap_content, layout).text = written[1].text

\* the characters of the input that stand before the opening line
TextBefore ==
    IF keymap_start_idx = 1 THEN <<>>
    ELSE Join(SubSeq(lines, 1, keymap_start_idx - 1), NL) \o NL

\* the characters of the input that stand after the closing line
TextAfter ==
    IF keymap_end_idx = Len(lines) THEN <<>>
    ELSE NL \o Join(SubSeq(lines, keymap_end_idx + 1, Len(lines)), NL)

\* C17: on a successful alignment the output is the input's text before the
\* opening line, the regenerated section, and the input's text after the
\* closing line, with no character added or removed outside the section,
\* also when the block opens on the first line or closes on the last.
C17_OutsideTextIdentical ==
    Aligned => output_content = TextBefore \o Join(keymap_lines, NL) \o TextAfter

\* some layer's binding count differs from the layout's active-cell count
BindingCountMismatch ==
    /\ PastExtraction
    /\ \E k \in 1..Len(layers) :
          Len(layers[k].value) # ActiveCells(layout.layout)

\* the run has ended: a return value or a propagating exception
Ended == layer_pc \in {"done", "failed", "IndexError", "TypeError"}

\* C18: a run on a keymap with a layer whose binding count differs from the
\* layout's active-cell count returns False and opens no file for writing.
C18_MismatchRejected ==
    BindingCountMismatch =>
        /\ opened = <<>>
        /\ Ended => layer_pc = "failed"

\* the reasons for which the run returns False before line 519
EarlyErrors ==
    {"Layout file not found", "Invalid JSON in layout file",
     "Layout file must contain a 'layout' field", "Keymap file not found",
     "No layers found in keymap file",
     "Could not find 'keymap {' in the file",
     "Could not find end of keymap section"}

\* C19: the target file is opened and written at most once, only after the
\* layout is loaded, the keymap read, layers extracted and the section
\* located, and with the whole assembled text; a run that returns False for
\* one of those reasons has opened no file.
C19_WrittenOnceAfterAllSteps ==
    /\ Len(opened) <= 1
    /\ Len(written) <= 1
    /\ opened # <<>> =>
          /\ LayoutLoads(layout_file)
          /\ keymap_file.exists
          /\ layers # <<>>
          /\ keymap_start_idx # 0
          /\ keymap_end_idx # 0
          /\ opened[1] = target_file
    /\ \A n \in 1..Len(written) :
          /\ opened # <<>>
          /\ written[n].file = target_file
          /\ written[n].text = output_content
          /\ Len(keymap_lines) = Len(layers) + 3
          /\ output_content = pre_keymap_content(lines, keymap_start_idx)
                 \o NL \o Join(keymap_lines, NL) \o NL
                 \o post_keymap_content(lines, keymap_end_idx)
    /\ (layer_pc = "failed" /\ error \in EarlyErrors) => opened = <<>>

\* a run that wrote its output once and returned True
C19_Witness ==
    /\ layer_pc = "done"
    /\ Len(opened) = 1
    /\ Len(written) = 1
    /\ Len(layers) >= 2

\* the keymap section of the file that was read cannot be located
Unlocatable ==
    /\ layer_pc \notin {"idle", "load", "read"}
    /\ keymap_file.exists
    /\ LayoutLoads(layout_file)
    /\ LET ls == SplitLines(keymap_content)
           st == FindKeymapStart(ls)
       IN  \/ st = 0
           \/ \A k \in (st + 1)..Len(ls) : BraceCount(ls, st, k) # 0

-----------------------------------------------------------------------------
(* Failure paths of align_keymap_with_layout                               *)

\* both input files were read
FilesRead ==
    /\ layer_pc \notin {"idle", "load", "read"}
    /\ LayoutLoads(layout_file)
    /\ keymap_file.exists

\* the layer pattern of line 188 matches nowhere in the source
NoLayerBlock ==
    \A q \in 1..Len(keymap_content) : ~LayerMatchAt(keymap_content, q).found

LacksLayoutField ==
    /\ layout_file.exists
    /\ layout_file.valid_json
    /\ \/ layout_file.json_type # "object"
       \/ "layout" \notin DOMAIN layout_file.data

\* C22: a run returns False when the layout file is missing, is not valid
\* JSON or lacks the layout field, or when the keymap file is missing; it
\* returns True only after the output was written or in debug mode.
C22_InputFailuresReturnFalse ==
    /\ ( /\ Ended
         /\ \/ ~layout_file.exists
            \/ ~layout_file.valid_json
            \/ LacksLayoutField
            \/ ~keymap_file.exists ) => layer_pc = "failed"
    /\ layer_pc = "done" => (written # <<>> \/ debug)

\* C23: with the debug flag set no file is ever opened for writing, neither
\* the keymap file nor the output path, on any path through the function.
C23_DebugWritesNothing ==
    debug =>
        /\ opened = <<>>
        /\ written = <<>>
        /\ output_content = <<>>
        /\ layer_pc \notin {"start", "located", "format", "formatted",
                             "assembled"}

\* a debug run with an output path given that printed its report and
\* returned True, on a file whose section would have been found
C23_Witness ==
    /\ debug
    /\ layer_pc = "done"
    /\ output_file = OUTPUT_PATH
    /\ layers # <<>>
    /\ column_widths # <<>>
    /\ FindKeymapStart(SplitLines(keymap_content)) # 0

-----------------------------------------------------------------------------
(* Placement order of build_layer_structure                                *)

\* the rank of the cell (r, c) among the active cells of the matrix, in
\* row-major order
ActiveRank(matrix, r, c) ==
    LET cells == UNION { {<<r2, c2>> : c2 \in 1..Len(matrix[r2])} :
                           r2 \in 1..r }
    IN  Cardinality({rc \in cells :
                        /\ rc[1] < r \/ rc[2] <= c
                        /\ matrix[rc[1]][rc[2]] = "X"})

-----------------------------------------------------------------------------
(* The boundaries of the keymap section                                    *)

\* the search of lines 483-490 has been made
EndSearched ==
    \/ layer_pc \in {"located", "format", "formatted", "assembled"}
    \/ layer_pc = "done" /\ ~debug
    \/ layer_pc = "IndexError" /\ keymap_end_idx # 0
    \/ layer_pc = "failed" /\ error \in {"Could not find end of keymap section",
                                        "Error writing to file"}

\* the lines, from the start line on, at which the running brace depth
\* counted from the start line is zero
ZeroDepthLines ==
    {k \in keymap_start_idx..Len(lines) :
        BraceCount(lines, keymap_start_idx, k) = 0}

\* C25: the start of the section is the first line holding the marker, and
\* its end is the first line at or after the start line at which the brace
\* depth is zero, the start line itself when the block closes on it.
C25_EndIsFirstZeroDepthLine ==
    EndSearched =>
        /\ Contains(lines[keymap_start_idx], STR_keymap_marker)
        /\ \A k \in 1..(keymap_start_idx - 1) :
              ~Contains(lines[k], STR_keymap_marker)
        /\ keymap_end_idx =
              IF ZeroDepthLines = {} THEN 0 ELSE SetMin(ZeroDepthLines)

\* the output text has been assembled
SectionAssembled == output_content # <<>>

\* the regenerated block as the claim lists it, from the extracted layers
ExpectedSection ==
    <<STR_keymap_open, STR_compatible>>
        \o [k \in 1..Len(layers) |->
              format_layer(layers[k].key, structured_layers[k].value,
                           column_widths)]
        \o <<STR_keymap_close>>

\* C26: the regenerated block is the opening line, the compatible line, one
\* rendered block per extracted layer in extraction order, each once, and
\* the closing line; in the output it stands in place of the lines from the
\* opening line to the end line, both included.
C26_SectionOrderAndSpan ==
    SectionAssembled =>
        /\ keymap_lines = ExpectedSection
        /\ \A k \in 1..Len(layers) :
              StartsWith(keymap_lines[k + 2],
                         STR_layer_indent \o layers[k].key \o STR_layer_open
                             \o NL)
        /\ \A j, k \in 1..Len(layers) :
              layers[j].key = layers[k].key => j = k
        /\ output_content =
              Join(SubSeq(lines, 1, keymap_start_idx - 1), NL) \o NL
                  \o Join(ExpectedSection, NL) \o NL
                  \o Join(SubSeq(lines, keymap_end_idx + 1, Len(lines)), NL)

\* a written output of two layers whose section had lines before and after
C26_Witness ==
    /\ Aligned
    /\ Len(layers) >= 2
    /\ keymap_start_idx > 1
    /\ keymap_end_idx < Len(lines)
    /\ keymap_end_idx > keymap_start_idx + 2

-----------------------------------------------------------------------------
(* Layout matrices with rows of different lengths                          *)

\* the loaded matrix has two rows of different lengths
RaggedLayout ==
    /\ FilesRead
    /\ \E r1, r2 \in 1..Len(layout.layout) :
          Len(layout.layout[r1]) # Len(layout.layout[r2])

\* C27: on a matrix whose rows differ in length, a later row longer than
\* the first included, calculate_column_widths and format_layer complete:
\* no run without the debug flag ends in an IndexError.
C27_RaggedRowsComplete ==
    (RaggedLayout /\ ~debug) => layer_pc # "IndexError"

-----------------------------------------------------------------------------
(* Bounds of the multi-parameter rule                                      *)

\* the behaviors the claim names: &ltl, &ltr and &td
PLAIN_SECOND_PARAM_BEHAVIORS == {T_ltl, <<"&","l","t","r">>, T_td}

-----------------------------------------------------------------------------
(* Termination and output of the tokenizer                                 *)

\* a is a subsequence of b: its elements occur in b in the same order
RECURSIVE IsSubsequence(_, _)
IsSubsequence(a, b) ==
    IF a = <<>> THEN TRUE
    ELSE IF b = <<>> THEN FALSE
    ELSE IF a[1] = b[1] THEN IsSubsequence(Tail(a), Tail(b))
    ELSE IsSubsequence(a, Tail(b))

\* the tokens of the emitted bindings, in output order
EmittedTokens == Concat([k \in 1..Len(bindings) |-> Split(bindings[k])])

\* C29: the tokenizer terminates, its scan index growing on every iteration
\* of the loop; every emitted binding begins with a sigil-prefixed token,
\* and the tokens of the emitted bindings, in output order, are a
\* subsequence of the token stream.
C29_TerminatesWithSubsequence ==
    /\ <>(pc = "done")
    /\ [][ (pc = "parse" /\ pc' = "parse" /\ <<i, bindings>>' # <<i, bindings>>)
             => (i' > i /\ i' <= Len(tokens) + 1) ]_vars
    /\ [] ( \A k \in 1..Len(bindings) :
              /\ bindings[k] # <<>>
              /\ IsSigil(Split(bindings[k])[1]) )
    /\ [] ( pc \in {"parse", "done"} => IsSubsequence(EmittedTokens, tokens) )

\* a finished run that skipped tokens and emitted two bindings
C29_Witness ==
    /\ pc = "done"
    /\ Len(bindings) = 2
    /\ Len(tokens) >= 3
    /\ ~IsSigil(tokens[1])
    /\ Len(EmittedTokens) < Len(tokens)
    /\ i = Len(tokens) + 1

-----------------------------------------------------------------------------
(* Layer blocks outside the keymap section                                 *)

\* the layers of the blocks that stand inside the located section
SectionLayers ==
    extract_all_layers(
        Join(SubSeq(lines, keymap_start_idx, keymap_end_idx), NL))

\* C30: only the layer blocks inside the original keymap section are
\* rendered: the layers are those of the section, the column widths are
\* computed from them alone, and a matching block outside the section is
\* not a layer.
C30_OnlySectionLayersRendered ==
    (keymap_end_idx # 0) =>
        /\ DictKeys(layers) = DictKeys(SectionLayers)
        /\ column_widths =
              calculate_column_widths(
                  build_layer_structure(SectionLayers, layout), layout,
                  DEFAULT_COLUMN_PADDING)

====
